---------------------------- MODULE Spec2Model ----------------------------
(***************************************************************************)
(* A model of virtual.py: a stack-and-register virtual machine that reads  *)
(* a textual program, one instruction per line, parses each line into a    *)
(* Command and hands it to the Executor.                                   *)
(*                                                                         *)
(* Python values are modelled as tagged records, because a register, a     *)
(* memory cell, a stack entry and a parsed argument may each hold a str,   *)
(* an int or a Register.Type member:                                       *)
(*     S(s)  a str            I(n)  an int          R(r)  a Register.Type  *)
(* Strings are TLA+ strings, read character by character with SubSeq.      *)
(***************************************************************************)
EXTENDS Integers, Sequences, FiniteSets, TLC

VARIABLES
    program,     \* the lines of data/input.txt, without their line ends
    pc,          \* number of lines the generator next_command has consumed
    status,      \* "running" | "done" | "exited" | "faulted": where run() is
    cmd,         \* the Command yielded to run()'s loop body, or NoCommand
    executed,    \* the Commands handed to execute_command so far, in order
    stderr,      \* what parse_command printed to sys.stderr
    raised,      \* the exception that left run(), or "none"
    fileOpen,    \* CommandStorage._file is open
    REGISTERS,   \* MachineState.REGISTERS
    MEMORY,      \* MachineState.MEMORY
    STACK,       \* MachineState.STACK
    output,      \* what Executor.print has written so far
    sink,        \* the Executor's sink: "unset" | "file" | "stdout" | "closed"
    runNo,       \* which VirtualMachine of the caller is running (1 or 2)
    first,       \* the final state of the caller's first run, or NoResult
    last,        \* the last direct call of a caller and its outcome
    calls        \* number of direct calls made so far

vars == <<program, pc, status, cmd, executed, stderr, raised, fileOpen,
          REGISTERS, MEMORY, STACK, output, sink, runNo, first, last,
          calls>>

machine == <<REGISTERS, MEMORY, STACK, output>>
runVars == <<program, pc, status, cmd, executed, stderr, raised, fileOpen>>

-----------------------------------------------------------------------------
(* Bounds of the model. *)

\* longest program a run reads
MaxProg == 3
\* most direct calls a caller makes on one machine
MaxCalls == 3
\* most argument tokens on a line given to the parser alone
MaxArgs == 2

-----------------------------------------------------------------------------
(* Python values. *)

S(s) == [k |-> "str", v |-> s]
I(n) == [k |-> "int", v |-> n]
R(r) == [k |-> "reg", v |-> r]

IsStr(x) == x.k = "str"
IsInt(x) == x.k = "int"
IsReg(x) == x.k = "reg"

Ch(s, i) == SubSeq(s, i, i)

Min(a, b) == IF a < b THEN a ELSE b

-----------------------------------------------------------------------------
(* str.strip, str.split(" ") and int(str). *)

Whitespace == {" ", "\t", "\n", "\r", "\f"}

RECURSIVE lstrip(_)
lstrip(s) ==
    IF Len(s) > 0 /\ Ch(s, 1) \in Whitespace
    THEN lstrip(SubSeq(s, 2, Len(s)))
    ELSE s

RECURSIVE rstrip(_)
rstrip(s) ==
    IF Len(s) > 0 /\ Ch(s, Len(s)) \in Whitespace
    THEN rstrip(SubSeq(s, 1, Len(s) - 1))
    ELSE s

strip(s) == rstrip(lstrip(s))

RECURSIVE splitFrom(_, _, _, _)
splitFrom(s, i, start, acc) ==
    IF i > Len(s)
    THEN Append(acc, SubSeq(s, start, Len(s)))
    ELSE IF Ch(s, i) = " "
         THEN splitFrom(s, i + 1, i + 1, Append(acc, SubSeq(s, start, i - 1)))
         ELSE splitFrom(s, i + 1, start, acc)

\* line.split(" "): every single space separates; "" splits to [""]
split(s) == splitFrom(s, 1, 1, <<>>)

Digits == {"0", "1", "2", "3", "4", "5", "6", "7", "8", "9"}

DigitVal(c) ==
    CASE c = "0" -> 0 [] c = "1" -> 1 [] c = "2" -> 2 [] c = "3" -> 3
      [] c = "4" -> 4 [] c = "5" -> 5 [] c = "6" -> 6 [] c = "7" -> 7
      [] c = "8" -> 8 [] c = "9" -> 9

\* the digits of an int literal: digits, single underscores only between them
int_body_ok(b) ==
    /\ Len(b) > 0
    /\ \A i \in 1..Len(b) : Ch(b, i) \in Digits \cup {"_"}
    /\ Ch(b, 1) # "_"
    /\ Ch(b, Len(b)) # "_"
    /\ \A i \in 1..(Len(b) - 1) : ~(Ch(b, i) = "_" /\ Ch(b, i + 1) = "_")

RECURSIVE int_digits(_, _)
int_digits(b, acc) ==
    IF Len(b) = 0 THEN acc
    ELSE IF Ch(b, 1) = "_"
         THEN int_digits(SubSeq(b, 2, Len(b)), acc)
         ELSE int_digits(SubSeq(b, 2, Len(b)), acc * 10 + DigitVal(Ch(b, 1)))

int_signed(s) == Len(s) > 0 /\ Ch(s, 1) \in {"+", "-"}

int_body(s) == IF int_signed(s) THEN SubSeq(s, 2, Len(s)) ELSE s

\* int(s) does not raise ValueError
int_ok(s) == int_body_ok(int_body(strip(s)))

\* int(s) with the sign dropped
int_of_unsigned(s) == int_digits(int_body(strip(s)), 0)

\* int(s), where int_ok(s)
int_of(s) ==
    LET t == strip(s)
        n == int_digits(int_body(t), 0)
    IN  IF int_signed(t) /\ Ch(t, 1) = "-" THEN 0 - n ELSE n

-----------------------------------------------------------------------------
(* MemoryAddress, Action, Register. *)

Letters ==
    {"a", "b", "c", "d", "e", "f", "g", "h", "i", "j", "k", "l", "m",
     "n", "o", "p", "q", "r", "s", "t", "u", "v", "w", "x", "y", "z",
     "A", "B", "C", "D", "E", "F", "G", "H", "I", "J", "K", "L", "M",
     "N", "O", "P", "Q", "R", "S", "T", "U", "V", "W", "X", "Y", "Z"}

\* re.fullmatch(r"{[A-Za-z0-9_]+}", candidate)
MemoryAddress_is_valid(candidate) ==
    /\ Len(candidate) >= 3
    /\ Ch(candidate, 1) = "{"
    /\ Ch(candidate, Len(candidate)) = "}"
    /\ \A i \in 2..(Len(candidate) - 1) :
           Ch(candidate, i) \in Letters \cup Digits \cup {"_"}

Action_SET ==
    {"IDLE", "PUSH", "POP", "INC", "ADD", "SUB", "STORE", "LOAD", "FREE", "PRINT"}

\* Action.from_str does not raise
Action_from_str_ok(candidate) == candidate \in Action_SET

Register_Type == {"RESULT", "RXX"}

Register_MAP == [t \in {"%res", "%rxx"} |-> IF t = "%res" THEN "RESULT" ELSE "RXX"]

Register_immutable(reg) == reg = R("RESULT")

\* candidate[0:2] == "%r"
Register_potential(candidate) ==
    SubSeq(candidate, 1, Min(2, Len(candidate))) = "%r"

\* Register.from_str does not raise
Register_from_str_ok(candidate) == candidate \in DOMAIN Register_MAP

Register_from_str(candidate) == R(Register_MAP[candidate])

-----------------------------------------------------------------------------
(* CommandChecker: each check_and_parse takes the argument list and gives   *)
(* [ok, args]: whether it returned without raising, and the argument list   *)
(* as it has left it (the list is mutated in place).                        *)

Ok(args) == [ok |-> TRUE, args |-> args]
Raise(args) == [ok |-> FALSE, args |-> args]

Idle_check_and_parse(args) ==
    IF Len(args) # 0 THEN Raise(args) ELSE Ok(args)

Push_check_and_parse(args) ==
    IF Len(args) # 1 THEN Raise(args)
    ELSE IF MemoryAddress_is_valid(args[1].v) THEN Ok(args)
    ELSE IF Register_potential(args[1].v)
         THEN IF Register_from_str_ok(args[1].v)
              THEN Ok(<<Register_from_str(args[1].v)>>)
              ELSE Raise(args)
    ELSE IF int_ok(args[1].v) THEN Ok(<<I(int_of(args[1].v))>>)
    ELSE Raise(args)

Pop_check_and_parse(args) ==
    IF Len(args) = 1 /\ ~MemoryAddress_is_valid(args[1].v) THEN Raise(args)
    ELSE IF Len(args) # 0 THEN Raise(args)
    ELSE Ok(args)

Inc_check_and_parse(args) ==
    IF Len(args) # 1 THEN Raise(args)
    ELSE IF MemoryAddress_is_valid(args[1].v) THEN Ok(args)
    ELSE IF Register_potential(args[1].v)
         THEN IF ~Register_from_str_ok(args[1].v) THEN Raise(args)
              ELSE IF Register_immutable(Register_from_str(args[1].v))
                   THEN Raise(args)
                   ELSE Ok(<<Register_from_str(args[1].v)>>)
    ELSE IF int_ok(args[1].v) THEN Ok(<<I(int_of(args[1].v))>>)
    ELSE Raise(args)

\* the loop of check_2_args from index i on: an argument coerced before a
\* later one raises stays coerced
RECURSIVE check_2_args_from(_, _)
check_2_args_from(args, i) ==
    IF i > Len(args) THEN Ok(args)
    ELSE IF Register_potential(args[i].v)
         THEN IF Register_from_str_ok(args[i].v)
              THEN check_2_args_from(
                       [args EXCEPT ![i] = Register_from_str(args[i].v)], i + 1)
              ELSE Raise(args)
    ELSE IF MemoryAddress_is_valid(args[i].v)
         THEN check_2_args_from(args, i + 1)
    ELSE IF int_ok(args[i].v)
         THEN check_2_args_from([args EXCEPT ![i] = I(int_of(args[i].v))], i + 1)
    ELSE Raise(args)

check_2_args(args) ==
    IF Len(args) # 2 THEN Raise(args) ELSE check_2_args_from(args, 1)

Add_check_and_parse(args) == check_2_args(args)

Sub_check_and_parse(args) == check_2_args(args)

Store_check_and_parse(args) ==
    IF Len(args) = 0 THEN Raise(args)
    ELSE IF Len(args) = 1
         THEN IF ~MemoryAddress_is_valid(args[1].v) THEN Raise(args) ELSE Ok(args)
    ELSE IF Len(args) = 2
         THEN IF ~Register_potential(args[1].v) THEN Raise(args)
              ELSE IF Register_from_str_ok(args[1].v)
                   THEN Ok([args EXCEPT ![1] = Register_from_str(args[1].v)])
                   ELSE Raise(args)
    ELSE Raise(args)

Load_check_and_parse(args) ==
    IF Len(args) # 1 \/ ~MemoryAddress_is_valid(args[1].v)
    THEN Raise(args) ELSE Ok(args)

Free_check_and_parse(args) ==
    IF Len(args) = 0 \/ (Len(args) = 1 /\ ~MemoryAddress_is_valid(args[1].v))
    THEN Raise(args) ELSE Ok(args)

Print_check_and_parse(args) ==
    IF Len(args) # 1 THEN Raise(args)
    ELSE IF Register_potential(args[1].v)
         THEN IF Register_from_str_ok(args[1].v)
              THEN Ok(<<Register_from_str(args[1].v)>>)
              ELSE Raise(args)
    ELSE Ok(args)

CommandChecker_check_and_parse(action, args) ==
    CASE action = "IDLE"  -> Idle_check_and_parse(args)
      [] action = "PUSH"  -> Push_check_and_parse(args)
      [] action = "POP"   -> Pop_check_and_parse(args)
      [] action = "INC"   -> Inc_check_and_parse(args)
      [] action = "ADD"   -> Add_check_and_parse(args)
      [] action = "SUB"   -> Sub_check_and_parse(args)
      [] action = "STORE" -> Store_check_and_parse(args)
      [] action = "LOAD"  -> Load_check_and_parse(args)
      [] action = "FREE"  -> Free_check_and_parse(args)
      [] action = "PRINT" -> Print_check_and_parse(args)

-----------------------------------------------------------------------------
(* Command.__init__(line): [ok, action, args, err]. With ok the Command is  *)
(* constructed; otherwise ValueError(err) is raised, args being the         *)
(* argument list as the failed construction left it.                        *)

RawArgs(parts) == [i \in 1..(Len(parts) - 1) |-> S(parts[i + 1])]

InvalidCommand(line) == "Invalid command: '" \o line \o "'"

Command(line) ==
    LET parts == split(line)
        args  == RawArgs(parts)
    IN  IF ~Action_from_str_ok(parts[1])
        THEN [ok |-> FALSE, action |-> "", args |-> args,
              err |-> InvalidCommand(line)]
        ELSE LET r == CommandChecker_check_and_parse(parts[1], args)
             IN  [ok |-> r.ok, action |-> parts[1], args |-> r.args,
                  err |-> IF r.ok THEN "" ELSE InvalidCommand(line)]

NoCommand == [ok |-> FALSE, action |-> "", args |-> <<>>, err |-> ""]

-----------------------------------------------------------------------------
(* MachineState and the Executor that owns it. m is the record of the      *)
(* three containers of the MachineState, of the Executor's sink and of     *)
(* what has been printed; an operation gives [exc, m]: the exception it    *)
(* raised ("none" if it returned) and the state it left.                   *)

EmptyMemory == [a \in {} |-> I(0)]

\* MachineState.__init__
MachineState_init ==
    [REGISTERS |-> [r \in Register_Type |-> I(0)],
     MEMORY    |-> EmptyMemory,
     STACK     |-> <<>>]

Returned(m) == [exc |-> "none", m |-> m]
Raised(e, m) == [exc |-> e, m |-> m]

Value(v) == [exc |-> "none", val |-> v]
NoValue(e) == [exc |-> e, val |-> I(0)]

\* set_register without the test of Register.immutable
set_register_unchecked(m, rtype, value) ==
    Returned([m EXCEPT !.REGISTERS[rtype.v] = value])

set_register(m, rtype, value) ==
    IF Register_immutable(rtype)
    THEN Raised("TypeError", m)
    ELSE Returned([m EXCEPT !.REGISTERS[rtype.v] = value])

get_register_value(m, rtype) == Value(m.REGISTERS[rtype.v])

set_memory(m, addr, value) ==
    Returned([m EXCEPT !.MEMORY =
        [a \in DOMAIN m.MEMORY \cup {addr} |->
            IF a = addr THEN value ELSE m.MEMORY[a]]])

get_memory_value(m, addr) ==
    IF addr \in DOMAIN m.MEMORY THEN Value(m.MEMORY[addr]) ELSE NoValue("KeyError")

free_memory(m, addr) ==
    IF addr \in DOMAIN m.MEMORY
    THEN Returned([m EXCEPT !.MEMORY =
             [a \in DOMAIN m.MEMORY \ {addr} |-> m.MEMORY[a]]])
    ELSE Raised("KeyError", m)

resolve_int(m, arg) ==
    IF IsReg(arg) THEN get_register_value(m, arg)
    ELSE IF IsStr(arg) THEN get_memory_value(m, arg.v)
    ELSE Value(arg)

\* a + b and a - b on Python values: int with int, str + str concatenates
PyAdd(a, b) ==
    IF IsInt(a) /\ IsInt(b) THEN Value(I(a.v + b.v))
    ELSE IF IsStr(a) /\ IsStr(b) THEN Value(S(a.v \o b.v))
    ELSE NoValue("TypeError")

PySub(a, b) ==
    IF IsInt(a) /\ IsInt(b) THEN Value(I(a.v - b.v)) ELSE NoValue("TypeError")

-----------------------------------------------------------------------------
(* Executor: the handlers and the dispatch.                                *)

\* Executor.__init__(state, out_file_path): path is "none" for no path,
\* "file" for a path that opens, "stdout" for a path that fails to open
Executor_init(state, path) ==
    [REGISTERS |-> state.REGISTERS,
     MEMORY    |-> state.MEMORY,
     STACK     |-> state.STACK,
     output    |-> <<>>,
     sink      |-> IF path = "none" THEN "unset" ELSE path]

\* Executor.close
Executor_close(s) == IF s = "file" THEN "closed" ELSE s

_push(m, args) ==
    IF Len(args) < 1 THEN Raised("IndexError", m)
    ELSE LET r == resolve_int(m, args[1])
         IN  IF r.exc # "none" THEN Raised(r.exc, m)
             ELSE Returned([m EXCEPT !.STACK = Append(m.STACK, r.val)])

_pop(m, args) ==
    IF Len(m.STACK) = 0 THEN Raised("IndexError", m)
    ELSE LET val    == m.STACK[Len(m.STACK)]
             popped == [m EXCEPT !.STACK = SubSeq(m.STACK, 1, Len(m.STACK) - 1)]
         IN  IF Len(args) > 0 THEN set_memory(popped, args[1].v, val)
             ELSE Returned(popped)

_inc(m, args) ==
    IF Len(args) < 1 THEN Raised("IndexError", m)
    ELSE LET arg == args[1]
         IN  IF IsReg(arg)
             THEN IF Register_immutable(arg) THEN Raised("TypeError", m)
                  ELSE LET s == PyAdd(get_register_value(m, arg).val, I(1))
                       IN  IF s.exc # "none" THEN Raised(s.exc, m)
                           ELSE set_register(m, arg, s.val)
             ELSE IF IsStr(arg)
             THEN LET g == get_memory_value(m, arg.v)
                  IN  IF g.exc # "none" THEN Raised(g.exc, m)
                      ELSE LET s == PyAdd(g.val, I(1))
                           IN  IF s.exc # "none" THEN Raised(s.exc, m)
                               ELSE set_memory(m, arg.v, s.val)
             ELSE set_register(m, R("RESULT"), I(arg.v + 1))

_add(m, args) ==
    IF Len(args) < 1 THEN Raised("IndexError", m)
    ELSE LET val1 == resolve_int(m, args[1])
         IN  IF val1.exc # "none" THEN Raised(val1.exc, m)
             ELSE IF Len(args) < 2 THEN Raised("IndexError", m)
             ELSE LET val2 == resolve_int(m, args[2])
                  IN  IF val2.exc # "none" THEN Raised(val2.exc, m)
                      ELSE LET s == PyAdd(val1.val, val2.val)
                           IN  IF s.exc # "none" THEN Raised(s.exc, m)
                               ELSE set_register(m, R("RESULT"), s.val)

_sub(m, args) ==
    IF Len(args) < 1 THEN Raised("IndexError", m)
    ELSE LET val1 == resolve_int(m, args[1])
         IN  IF val1.exc # "none" THEN Raised(val1.exc, m)
             ELSE IF Len(args) < 2 THEN Raised("IndexError", m)
             ELSE LET val2 == resolve_int(m, args[2])
                  IN  IF val2.exc # "none" THEN Raised(val2.exc, m)
                      ELSE LET s == PySub(val1.val, val2.val)
                           IN  IF s.exc # "none" THEN Raised(s.exc, m)
                               ELSE set_register(m, R("RESULT"), s.val)

_store(m, args) ==
    IF Len(args) < 2 THEN Raised("IndexError", m)
    ELSE LET value == IF IsInt(args[1]) THEN args[1]
                      ELSE get_register_value(m, R("RESULT")).val
         IN  set_memory(m, args[2].v, value)

_load(m, args) ==
    IF Len(args) < 1 THEN Raised("IndexError", m)
    ELSE set_register(m, R("RXX"), args[1])

_free(m, args) ==
    IF Len(args) < 1 THEN Raised("IndexError", m)
    ELSE free_memory(m, args[1].v)

\* Executor.print exists only where __init__ was given an out_file_path
_print(m, args) ==
    IF Len(args) < 1 THEN Raised("IndexError", m)
    ELSE LET val == resolve_int(m, args[1])
         IN  IF val.exc # "none" THEN Raised(val.exc, m)
             ELSE IF m.sink = "unset" THEN Raised("AttributeError", m)
             ELSE IF m.sink = "closed" THEN Raised("ValueError", m)
             ELSE Returned([m EXCEPT !.output = Append(m.output, val.val)])

\* execute_command with a third case, LOAD
execute_command_with_load(m, command) ==
    CASE command.action = "IDLE" -> Returned(m)
      [] command.action = "PUSH" -> _push(m, command.args)
      [] command.action = "LOAD" -> _load(m, command.args)
      [] OTHER -> Returned(m)

\* execute_command with a case for each of the ten opcodes
execute_command_all(m, command) ==
    CASE command.action = "IDLE"  -> Returned(m)
      [] command.action = "PUSH"  -> _push(m, command.args)
      [] command.action = "POP"   -> _pop(m, command.args)
      [] command.action = "INC"   -> _inc(m, command.args)
      [] command.action = "ADD"   -> _add(m, command.args)
      [] command.action = "SUB"   -> _sub(m, command.args)
      [] command.action = "STORE" -> _store(m, command.args)
      [] command.action = "LOAD"  -> _load(m, command.args)
      [] command.action = "FREE"  -> _free(m, command.args)
      [] command.action = "PRINT" -> _print(m, command.args)

\* the match of execute_command has the two cases IDLE and PUSH
execute_command(m, command) ==
    CASE command.action = "IDLE" -> Returned(m)
      [] command.action = "PUSH" -> _push(m, command.args)
      [] OTHER -> Returned(m)

-----------------------------------------------------------------------------
(* The lines a program is written with, and the programs a run reads.      *)

ProgLines ==
    {"IDLE", "PUSH 5", "PUSH -1", "PUSH {x}", "PUSH %rxx", "POP", "POP {x}",
     "ADD 2 3", "INC %rxx", "STORE {x}", "LOAD {x}", "PRINT 5", "FOO 1 2",
     "push 5", " PUSH 12 "}

RECURSIVE Programs(_)
Programs(n) ==
    IF n = 0 THEN {<<>>}
    ELSE LET shorter == Programs(n - 1)
         IN  shorter \cup {Append(p, l) : p \in shorter, l \in ProgLines}

NoResult == [status |-> "none"]
NoCall == [op |-> "none", line |-> "", action |-> "", args |-> <<>>, exc |-> "none"]

\* the Executor and its MachineState, as the variables hold them
M == [REGISTERS |-> REGISTERS, MEMORY |-> MEMORY, STACK |-> STACK,
      output |-> output, sink |-> sink]

SetMachine(m) ==
    /\ REGISTERS' = m.REGISTERS
    /\ MEMORY' = m.MEMORY
    /\ STACK' = m.STACK
    /\ output' = m.output
    /\ sink' = m.sink

IsMachine(m) ==
    /\ REGISTERS = m.REGISTERS
    /\ MEMORY = m.MEMORY
    /\ STACK = m.STACK
    /\ output = m.output
    /\ sink = m.sink

\* VirtualMachine.__init__: CommandStorage("data/input.txt") opened,
\* Executor(MachineState()) with no out_file_path
VirtualMachine_init ==
    /\ pc = 0
    /\ status = "running"
    /\ cmd = NoCommand
    /\ executed = <<>>
    /\ stderr = <<>>
    /\ raised = "none"
    /\ fileOpen = TRUE
    /\ IsMachine(Executor_init(MachineState_init, "none"))

Init ==
    /\ program \in Programs(MaxProg)
    /\ VirtualMachine_init
    /\ runNo = 1
    /\ first = NoResult
    /\ last = NoCall
    /\ calls = 0

-----------------------------------------------------------------------------
(* VirtualMachine.run: the loop over next_command, and its finally.        *)

\* the line the file iterator gives, stripped by next_command
NextLine == strip(program[pc + 1] \o "\n")

\* next_command where parse_command prints the error and does not exit
NextCommand_skip ==
    /\ status = "running"
    /\ ~cmd.ok
    /\ pc < Len(program)
    /\ pc' = pc + 1
    /\ LET c == Command(NextLine)
       IN  IF c.ok
           THEN /\ cmd' = c
                /\ UNCHANGED stderr
           ELSE /\ cmd' = NoCommand
                /\ stderr' = Append(stderr, c.err)
    /\ UNCHANGED <<program, status, raised, fileOpen, sink, executed,
                   REGISTERS, MEMORY, STACK, output, runNo, first, last, calls>>

\* next_command where the exit of parse_command ends the process at once,
\* without the finally of run()
NextCommand_hard_exit ==
    /\ status = "running"
    /\ ~cmd.ok
    /\ pc < Len(program)
    /\ pc' = pc + 1
    /\ LET c == Command(NextLine)
       IN  IF c.ok
           THEN /\ cmd' = c
                /\ UNCHANGED <<status, stderr, raised>>
           ELSE /\ cmd' = NoCommand
                /\ stderr' = Append(stderr, c.err)
                /\ status' = "exited"
                /\ raised' = "SystemExit"
    /\ UNCHANGED <<program, executed, fileOpen, sink, REGISTERS, MEMORY, STACK,
                   output, runNo, first, last, calls>>

\* next_command yields the next Command; on a line Command() rejects,
\* parse_command prints the error and exit(-1) leaves run() through finally
NextCommand ==
    /\ status = "running"
    /\ ~cmd.ok
    /\ pc < Len(program)
    /\ pc' = pc + 1
    /\ LET c == Command(NextLine)
       IN  IF c.ok
           THEN /\ cmd' = c
                /\ UNCHANGED <<status, stderr, raised, fileOpen, sink>>
           ELSE /\ cmd' = NoCommand
                /\ stderr' = Append(stderr, c.err)
                /\ status' = "exited"
                /\ raised' = "SystemExit"
                /\ sink' = Executor_close(sink)
                /\ fileOpen' = FALSE
    /\ UNCHANGED <<program, executed, REGISTERS, MEMORY, STACK, output,
                   runNo, first, last, calls>>

\* the loop body with the exception of execute_command caught and dropped
ExecuteCommand_swallow ==
    /\ status = "running"
    /\ cmd.ok
    /\ executed' = Append(executed, cmd)
    /\ cmd' = NoCommand
    /\ SetMachine(execute_command(M, cmd).m)
    /\ UNCHANGED <<program, pc, status, raised, fileOpen, stderr, runNo,
                   first, last, calls>>

\* the loop body: execute_command(cmd); an exception leaves run() through
\* finally
ExecuteCommand ==
    /\ status = "running"
    /\ cmd.ok
    /\ executed' = Append(executed, cmd)
    /\ cmd' = NoCommand
    /\ LET r == execute_command(M, cmd)
       IN  IF r.exc = "none"
           THEN /\ SetMachine(r.m)
                /\ UNCHANGED <<status, raised, fileOpen>>
           ELSE /\ SetMachine([r.m EXCEPT !.sink = Executor_close(r.m.sink)])
                /\ status' = "faulted"
                /\ raised' = r.exc
                /\ fileOpen' = FALSE
    /\ UNCHANGED <<program, pc, stderr, runNo, first, last, calls>>

\* the file is exhausted: the loop ends and finally closes both
RunEnd ==
    /\ status = "running"
    /\ ~cmd.ok
    /\ pc = Len(program)
    /\ status' = "done"
    /\ sink' = Executor_close(sink)
    /\ fileOpen' = FALSE
    /\ UNCHANGED <<program, pc, cmd, executed, stderr, raised, REGISTERS,
                   MEMORY, STACK, output, runNo, first, last, calls>>

Next == NextCommand \/ ExecuteCommand \/ RunEnd

Spec == Init /\ [][Next]_vars

-----------------------------------------------------------------------------
(* A caller that runs the program twice, each time in a new VirtualMachine. *)

RunResult ==
    [status |-> status, raised |-> raised, stderr |-> stderr,
     executed |-> executed, REGISTERS |-> REGISTERS, MEMORY |-> MEMORY,
     STACK |-> STACK, output |-> output]

\* a second VirtualMachine() whose MachineState is the first one's
VirtualMachine_new_shared(prev) == prev

\* the Executor of a second VirtualMachine(), prev being the first one's:
\* __init__ builds a new MachineState and takes nothing from prev
VirtualMachine_new(prev) == Executor_init(MachineState_init, "none")

SecondRun ==
    /\ runNo = 1
    /\ status # "running"
    /\ first' = RunResult
    /\ runNo' = 2
    /\ pc' = 0
    /\ status' = "running"
    /\ cmd' = NoCommand
    /\ executed' = <<>>
    /\ stderr' = <<>>
    /\ raised' = "none"
    /\ fileOpen' = TRUE
    /\ SetMachine(VirtualMachine_new(M))
    /\ UNCHANGED <<program, last, calls>>

NextTwice == NextCommand \/ ExecuteCommand \/ RunEnd \/ SecondRun

SpecTwice == Init /\ [][NextTwice]_vars

-----------------------------------------------------------------------------
(* A caller that holds an Executor and calls the dispatch, the handlers     *)
(* and the MachineState directly, as a test of one of them does.            *)

Lines ==
    {"IDLE", "IDLE 1",
     "PUSH 5", "PUSH -1", "PUSH 12", "PUSH {x}", "PUSH %rxx", "PUSH %res",
     "PUSH foo", "PUSH %rzz", "PUSH",
     "POP", "POP {x}", "POP 5", "POP {x} {y}",
     "INC %rxx", "INC %res", "INC {x}", "INC 2", "INC %r",
     "ADD 2 3", "ADD %rxx {x}", "ADD %rxx foo", "ADD 2", "SUB 2 3", "SUB {x} %res",
     "STORE {x}", "STORE %rxx {x}", "STORE %res {y}", "STORE %rxx 5", "STORE",
     "LOAD {x}", "LOAD 5",
     "FREE", "FREE {x}", "FREE {x} {y}", "FREE 5",
     "PRINT 5", "PRINT %rxx", "PRINT {x}", "PRINT foo", "PRINT",
     "FOO 1 2", "push 5", ""}

\* Command(line) of each of them
Parsed == [line \in Lines |-> Command(line)]

Addresses == {"{x}", "{y}"}
DirectValues == {I(-2), I(7)}

InitUnit ==
    /\ program = <<>>
    /\ pc = 0
    /\ status = "idle"
    /\ cmd = NoCommand
    /\ executed = <<>>
    /\ stderr = <<>>
    /\ raised = "none"
    /\ fileOpen = FALSE
    /\ \E path \in {"none", "file", "stdout"} :
           IsMachine(Executor_init(MachineState_init, path))
    /\ runNo = 1
    /\ first = NoResult
    /\ last = NoCall
    /\ calls = 0

\* a direct call op, of the line or arguments given, with result r
Called(op, line, action, args, r) ==
    /\ calls' = calls + 1
    /\ last' = [op |-> op, line |-> line, action |-> action, args |-> args,
                exc |-> r.exc]
    /\ SetMachine(r.m)
    /\ UNCHANGED <<runVars, runNo, first>>

CanCall == status = "idle" /\ calls < MaxCalls

\* executor.execute_command(Command(line)): a line Command() rejects
\* raises ValueError before anything is executed
Call_execute_command ==
    /\ CanCall
    /\ \E line \in Lines :
           LET c == Parsed[line]
           IN  Called("execute_command", line, c.action, c.args,
                      IF c.ok THEN execute_command(M, c)
                      ELSE Raised("ValueError", M))

\* the Commands of the opcode a handler is for
HandlerLines ==
    [action \in Action_SET |->
        {line \in Lines : Parsed[line].ok /\ Parsed[line].action = action}]

CommandsOf(action) == HandlerLines[action]

Call_push ==
    /\ CanCall
    /\ \E line \in CommandsOf("PUSH") :
           Called("_push", line, "PUSH", Parsed[line].args,
                  _push(M, Parsed[line].args))

Call_pop ==
    /\ CanCall
    /\ \E line \in CommandsOf("POP") :
           Called("_pop", line, "POP", Parsed[line].args,
                  _pop(M, Parsed[line].args))

Call_inc ==
    /\ CanCall
    /\ \E line \in CommandsOf("INC") :
           Called("_inc", line, "INC", Parsed[line].args,
                  _inc(M, Parsed[line].args))

Call_add ==
    /\ CanCall
    /\ \E line \in CommandsOf("ADD") :
           Called("_add", line, "ADD", Parsed[line].args,
                  _add(M, Parsed[line].args))

Call_sub ==
    /\ CanCall
    /\ \E line \in CommandsOf("SUB") :
           Called("_sub", line, "SUB", Parsed[line].args,
                  _sub(M, Parsed[line].args))

Call_store ==
    /\ CanCall
    /\ \E line \in CommandsOf("STORE") :
           Called("_store", line, "STORE", Parsed[line].args,
                  _store(M, Parsed[line].args))

Call_load ==
    /\ CanCall
    /\ \E line \in CommandsOf("LOAD") :
           Called("_load", line, "LOAD", Parsed[line].args,
                  _load(M, Parsed[line].args))

Call_free ==
    /\ CanCall
    /\ \E line \in CommandsOf("FREE") :
           Called("_free", line, "FREE", Parsed[line].args,
                  _free(M, Parsed[line].args))

Call_print ==
    /\ CanCall
    /\ \E line \in CommandsOf("PRINT") :
           Called("_print", line, "PRINT", Parsed[line].args,
                  _print(M, Parsed[line].args))

\* state.set_register(rtype, value)
Call_set_register ==
    /\ CanCall
    /\ \E rtype \in Register_Type, value \in DirectValues :
           Called("set_register", "", "", <<R(rtype), value>>,
                  set_register(M, R(rtype), value))

\* state.set_memory(addr, value)
Call_set_memory ==
    /\ CanCall
    /\ \E addr \in Addresses, value \in DirectValues :
           Called("set_memory", "", "", <<S(addr), value>>,
                  set_memory(M, addr, value))

NextUnit ==
    \/ Call_execute_command
    \/ Call_push
    \/ Call_pop
    \/ Call_inc
    \/ Call_add
    \/ Call_sub
    \/ Call_store
    \/ Call_load
    \/ Call_free
    \/ Call_print
    \/ Call_set_register
    \/ Call_set_memory

SpecUnit == InitUnit /\ [][NextUnit]_vars

-----------------------------------------------------------------------------
(* The parser alone: Command(line) applied to one line, built of an opcode  *)
(* token and argument tokens separated by single spaces.                    *)

OpcodeTokens == Action_SET \cup {"FOO", "push", ""}

ArgTokens ==
    {"5", "-1", "{x}", "{y_1}", "%rxx", "%res", "%rzz", "foo", "{}", ""}

RECURSIVE TokenLists(_)
TokenLists(n) ==
    IF n = 0 THEN {<<>>}
    ELSE LET shorter == TokenLists(n - 1)
         IN  shorter \cup {Append(ts, tok) : ts \in shorter, tok \in ArgTokens}

RECURSIVE JoinLine(_, _)
JoinLine(opcode, ts) ==
    IF Len(ts) = 0 THEN opcode
    ELSE JoinLine(opcode, SubSeq(ts, 1, Len(ts) - 1)) \o " " \o ts[Len(ts)]

InitParse ==
    /\ \E opcode \in OpcodeTokens, ts \in TokenLists(MaxArgs) :
           program = <<JoinLine(opcode, ts)>>
    /\ pc = 0
    /\ status = "parsing"
    /\ cmd = NoCommand
    /\ executed = <<>>
    /\ stderr = <<>>
    /\ raised = "none"
    /\ fileOpen = FALSE
    /\ IsMachine(Executor_init(MachineState_init, "none"))
    /\ runNo = 1
    /\ first = NoResult
    /\ last = NoCall
    /\ calls = 0

\* Command(line): the Command constructed, or ValueError and the argument
\* list as the constructor left it
Call_Command ==
    /\ status = "parsing"
    /\ status' = "parsed"
    /\ LET c == Command(program[1])
       IN  /\ cmd' = c
           /\ raised' = IF c.ok THEN "none" ELSE "ValueError"
    /\ UNCHANGED <<program, pc, executed, stderr, fileOpen, REGISTERS, MEMORY,
                   STACK, output, sink, runNo, first, last, calls>>

NextParse == Call_Command

SpecParse == InitParse /\ [][NextParse]_vars

-----------------------------------------------------------------------------
(* The claims.                                                             *)

\* literal tokens of the grammar ['-']? DIGIT+ and the integers they denote
LiteralValue == [tok \in {"5", "-1", "12"} |-> 
                    IF tok = "5" THEN 5 ELSE IF tok = "-1" THEN 0 - 1 ELSE 12]

\* well-formed memory address tokens
AddressTokens == {"{x}", "{y}", "{y_1}"}

\* the machine is as it was before the step
MachineUnchanged == UNCHANGED <<REGISTERS, MEMORY, STACK, output>>

\* C1: for every literal token n and every machine state, parsing "PUSH n"
\* and executing the Command through execute_command returns, leaves n on
\* top of a stack one longer than before, and leaves registers and memory
\* as they were.
C1_PushLiteral ==
    [][\A n \in DOMAIN LiteralValue :
          (last'.op = "execute_command" /\ last'.line = "PUSH " \o n)
              => /\ last'.exc = "none"
                 /\ STACK' = Append(STACK, I(LiteralValue[n]))
                 /\ REGISTERS' = REGISTERS
                 /\ MEMORY' = MEMORY]_vars

\* "PUSH -1" executed on a machine with a memory cell, a written register
\* and a stack entry
C1_Witness ==
    /\ last.op = "execute_command"
    /\ last.line = "PUSH -1"
    /\ last.exc = "none"
    /\ Len(STACK) = 1
    /\ STACK[1] = I(0 - 1)
    /\ DOMAIN MEMORY # {}
    /\ REGISTERS["RXX"] # I(0)

\* C2: the run of a program "PUSH v", "POP {a}" on a new machine ends
\* normally with memory cell {a} holding v and the stack empty.
C2_PushThenPopStores ==
    \A v \in DOMAIN LiteralValue : \A a \in AddressTokens :
        (program = <<"PUSH " \o v, "POP " \o a>> /\ status # "running")
            => /\ status = "done"
               /\ a \in DOMAIN MEMORY
               /\ MEMORY[a] = I(LiteralValue[v])
               /\ STACK = <<>>

\* the operand resolves to an int in the current machine state
ResolvesToInt(arg) ==
    resolve_int(M, arg).exc = "none" /\ IsInt(resolve_int(M, arg).val)

\* C3: executing ADD a b (SUB a b) whose operands resolve to integers
\* returns and leaves resolve(a) + resolve(b) (resolve(a) - resolve(b)) in
\* RESULT.
C3_AddSubSetResult ==
    [][(/\ last'.op = "execute_command"
        /\ last'.action \in {"ADD", "SUB"}
        /\ Parsed[last'.line].ok
        /\ ResolvesToInt(last'.args[1])
        /\ ResolvesToInt(last'.args[2]))
          => /\ last'.exc = "none"
             /\ REGISTERS'["RESULT"] =
                    LET a == resolve_int(M, last'.args[1]).val.v
                        b == resolve_int(M, last'.args[2]).val.v
                    IN  IF last'.action = "ADD" THEN I(a + b) ELSE I(a - b)]_vars

\* C4: "INC %res" is rejected by the parser and nothing is executed for it;
\* set_register with RESULT as target raises and leaves the registers as
\* they were.
C4_ResultWriteRejected ==
    [][/\ (last'.op = "execute_command" /\ last'.line = "INC %res")
            => (last'.exc = "ValueError" /\ MachineUnchanged)
       /\ (last'.op = "set_register" /\ last'.args[1] = R("RESULT"))
            => (last'.exc = "TypeError" /\ MachineUnchanged)]_vars

\* set_register(RESULT, v) rejected on a machine whose RXX has been written
C4_Witness ==
    /\ last.op = "set_register"
    /\ last.args[1] = R("RESULT")
    /\ last.exc = "TypeError"
    /\ REGISTERS["RXX"] = I(7)
    /\ REGISTERS["RESULT"] = I(0)

\* C5: in a run, executing POP with the stack empty raises: the run is
\* aborted with the error, and stack, memory and registers are as before.
C5_PopEmptyRaises ==
    [][(/\ cmd.ok
        /\ cmd.action = "POP"
        /\ STACK = <<>>
        /\ executed' = Append(executed, cmd))
          => /\ status' = "faulted"
             /\ raised' # "none"
             /\ MachineUnchanged]_vars

\* the argument is a well-formed memory address that is no key of MEMORY
AbsentAddress(arg) ==
    IsStr(arg) /\ arg.v \in AddressTokens /\ arg.v \notin DOMAIN MEMORY

\* C6: executing LOAD {a}, FREE {a} or an operand read of {a} (PUSH, INC,
\* ADD, SUB, PRINT) while {a} is no key of memory raises the error of a
\* missing key and leaves memory, registers and stack as they were.
C6_AbsentAddressRaises ==
    [][(/\ last'.op = "execute_command"
        /\ Parsed[last'.line].ok
        /\ last'.action \in {"LOAD", "FREE", "PUSH", "INC", "ADD", "SUB", "PRINT"}
        /\ \E i \in 1..Len(last'.args) : AbsentAddress(last'.args[i]))
          => /\ last'.exc = "KeyError"
             /\ MachineUnchanged]_vars

\* lines of ProgLines whose opcode token is none of the ten opcodes
UnknownOpcodeLines == {"FOO 1 2", "push 5"}

\* C7: a line whose opcode token is not an opcode fails parsing with an
\* error carrying the raw line; no Command for it reaches execute_command,
\* and no later line of the program is parsed or executed.
C7_UnknownOpcodeHalts ==
    \A i \in 1..Len(program) :
        program[i] \in UnknownOpcodeLines
            => /\ pc <= i
               /\ Len(executed) < i
               /\ pc = i => /\ status = "exited"
                            /\ raised = "SystemExit"
                            /\ ~cmd.ok
                            /\ stderr = <<"Invalid command: '" \o program[i] \o "'">>

\* the run has stopped at "FOO 1 2" with one line executed and one unread
C7_Witness ==
    /\ program = <<"PUSH 5", "FOO 1 2", "PUSH -1">>
    /\ status = "exited"
    /\ pc = 2
    /\ STACK = <<I(5)>>
    /\ Len(executed) = 1

\* C8: when executing an instruction raises, the run stops there with that
\* error leaving run(); after it nothing more is parsed or executed.
C8_FaultIsFatal ==
    [][/\ (/\ cmd.ok
           /\ executed' = Append(executed, cmd)
           /\ execute_command(M, cmd).exc # "none")
             => /\ status' = "faulted"
                /\ raised' = execute_command(M, cmd).exc
                /\ pc' = pc
       /\ status = "faulted"
             => UNCHANGED <<pc, executed, status, raised, cmd, REGISTERS,
                            MEMORY, STACK, output>>]_vars

\* the run has faulted on its second line, the third left unread
C8_Witness ==
    /\ status = "faulted"
    /\ raised = "KeyError"
    /\ pc = 2
    /\ Len(program) = 3
    /\ Len(executed) = 2
    /\ STACK = <<I(5)>>

C10_PopAccepted ==
    (status = "parsed" /\ split(program[1])[1] = "POP")
        => (cmd.ok <=>
               \/ Len(split(program[1])) = 1
               \/ /\ Len(split(program[1])) = 2
                  /\ split(program[1])[2] \in AddressTokens)

\* C11: a FREE line is accepted exactly when it has no argument or exactly
\* one argument that is a well-formed memory address; a bare "FREE" is
\* accepted and FREE with two or more arguments is rejected.
C11_FreeAccepted ==
    (status = "parsed" /\ split(program[1])[1] = "FREE")
        => (cmd.ok <=>
               \/ Len(split(program[1])) = 1
               \/ /\ Len(split(program[1])) = 2
                  /\ split(program[1])[2] \in AddressTokens)

\* the step is the execution of a parsed Command of the opcode, through
\* execute_command or through the handler of the opcode
Executes(action, handler) ==
    /\ last'.op \in {"execute_command", handler}
    /\ last'.action = action
    /\ Parsed[last'.line].ok

\* memory with cell addr set to value
MemoryWith(addr, value) ==
    [a \in DOMAIN MEMORY \cup {addr} |-> IF a = addr THEN value ELSE MEMORY[a]]

\* C12: executing STORE {a} returns and sets memory[{a}] to the value of
\* RESULT; executing STORE reg {a} returns and sets memory[{a}] to the value
\* of the register reg; registers and stack stay as they were.
C12_StoreWritesRegister ==
    [][/\ (/\ Executes("STORE", "_store")
           /\ Len(last'.args) = 1)
             => /\ last'.exc = "none"
                /\ MEMORY' = MemoryWith(last'.args[1].v, REGISTERS["RESULT"])
                /\ UNCHANGED <<REGISTERS, STACK>>
       /\ (/\ Executes("STORE", "_store")
           /\ Len(last'.args) = 2
           /\ last'.args[2].v \in AddressTokens)
             => /\ last'.exc = "none"
                /\ MEMORY' = MemoryWith(last'.args[2].v,
                                        REGISTERS[last'.args[1].v])
                /\ UNCHANGED <<REGISTERS, STACK>>]_vars

\* registers with register reg set to value
RegistersWith(reg, value) == [REGISTERS EXCEPT ![reg] = value]

\* C13: executing INC adds exactly 1 to its target and changes nothing
\* else: INC of a mutable register holding an int makes it one greater,
\* INC {a} of an existing int cell makes the cell one greater, and INC n of
\* a literal n returns and sets RESULT to n + 1.
C13_IncAddsOne ==
    [][(Executes("INC", "_inc"))
          => LET arg == last'.args[1]
             IN  /\ (IsReg(arg) /\ IsInt(REGISTERS[arg.v]))
                      => /\ last'.exc = "none"
                         /\ REGISTERS' =
                                RegistersWith(arg.v, I(REGISTERS[arg.v].v + 1))
                         /\ UNCHANGED <<MEMORY, STACK, output>>
                 /\ (/\ IsStr(arg)
                     /\ arg.v \in DOMAIN MEMORY
                     /\ IsInt(MEMORY[arg.v]))
                      => /\ last'.exc = "none"
                         /\ MEMORY' = MemoryWith(arg.v, I(MEMORY[arg.v].v + 1))
                         /\ UNCHANGED <<REGISTERS, STACK, output>>
                 /\ IsInt(arg)
                      => /\ last'.exc = "none"
                         /\ REGISTERS' = RegistersWith("RESULT", I(arg.v + 1))
                         /\ UNCHANGED <<MEMORY, STACK, output>>]_vars

\* what PRINT of the line is to print in the current machine state
PrintOperand(line) ==
    CASE line = "PRINT 5" -> I(5)
      [] line = "PRINT %rxx" -> REGISTERS["RXX"]
      [] line = "PRINT {x}" -> MEMORY["{x}"]

\* C14: executing PRINT of a literal, a register or an existing memory
\* address returns and appends exactly the integer the operand resolves to
\* to the output, whatever sink the Executor was built with, and leaves
\* registers, memory and stack as they were.
C14_PrintAppends ==
    [][(/\ Executes("PRINT", "_print")
        /\ last'.line \in {"PRINT 5", "PRINT %rxx", "PRINT {x}"}
        /\ last'.line = "PRINT {x}" => "{x}" \in DOMAIN MEMORY
        /\ IsInt(PrintOperand(last'.line)))
          => /\ last'.exc = "none"
             /\ output' = Append(output, PrintOperand(last'.line))
             /\ UNCHANGED <<REGISTERS, MEMORY, STACK>>]_vars

\* C15: executing LOAD {a} sets RXX to the address token itself and leaves
\* RESULT, memory and the stack as they were.
C15_LoadStoresAddress ==
    [][(Executes("LOAD", "_load"))
          => /\ REGISTERS' = RegistersWith("RXX", S(last'.args[1].v))
             /\ UNCHANGED <<MEMORY, STACK>>]_vars

\* C16: in every state of a run the register map has exactly the keys
\* RESULT and RXX, each holding an int, both 0 before anything is executed.
C16_TwoIntRegisters ==
    /\ DOMAIN REGISTERS = {"RESULT", "RXX"}
    /\ \A r \in DOMAIN REGISTERS : IsInt(REGISTERS[r])
    /\ executed = <<>> => \A r \in DOMAIN REGISTERS : REGISTERS[r] = I(0)

\* a run of LOAD, INC and a PUSH of RXX has ended normally
C16_Witness ==
    /\ program = <<"LOAD {x}", "INC %rxx", "PUSH %rxx">>
    /\ status = "done"
    /\ Len(executed) = 3
    /\ STACK = <<I(0)>>

\* C17: whenever run() has ended, by the end of the program, by a fault of
\* an instruction or by a parse error, the program source is closed and so
\* is the output sink if one was opened.
C17_ClosedAtEnd ==
    status \in {"done", "faulted", "exited"} => (~fileOpen /\ sink # "file")

\* the run has ended by the parse error of its second line
C17_Witness ==
    /\ program = <<"PUSH 5", "POP {x}">>
    /\ status = "exited"
    /\ pc = 2
    /\ ~fileOpen

\* C18: when Command(line) rejects the arguments of a line, the argument
\* list still holds the raw string tokens of the line, none of them replaced
\* by a register or an int.
C18_RejectedArgsRaw ==
    (status = "parsed" /\ ~cmd.ok)
        => cmd.args = RawArgs(split(program[1]))

\* the three shapes of an operand of an accepted command
IsAddressArg(a) == IsStr(a) /\ a.v \in AddressTokens
IsRegisterArg(a) == IsReg(a) /\ a.v \in {"RESULT", "RXX"}
IsLiteralArg(a) == IsInt(a) \/ (IsStr(a) /\ a.v \in DOMAIN LiteralValue)
IsOperandArg(a) == IsAddressArg(a) \/ IsRegisterArg(a) \/ IsLiteralArg(a)

\* the catalog of the instruction set: arity and the shape of each position
Catalog(action, args) ==
    CASE action = "IDLE"  -> Len(args) = 0
      [] action = "PUSH"  -> Len(args) = 1 /\ IsOperandArg(args[1])
      [] action = "POP"   -> Len(args) = 0
                             \/ (Len(args) = 1 /\ IsAddressArg(args[1]))
      [] action = "INC"   -> /\ Len(args) = 1
                             /\ \/ IsAddressArg(args[1])
                                \/ IsLiteralArg(args[1])
                                \/ args[1] = R("RXX")
      [] action \in {"ADD", "SUB"} ->
                             /\ Len(args) = 2
                             /\ IsOperandArg(args[1])
                             /\ IsOperandArg(args[2])
      [] action = "STORE" -> \/ (Len(args) = 1 /\ IsAddressArg(args[1]))
                             \/ /\ Len(args) = 2
                                /\ IsRegisterArg(args[1])
                                /\ IsAddressArg(args[2])
      [] action = "LOAD"  -> Len(args) = 1 /\ IsAddressArg(args[1])
      [] action = "FREE"  -> Len(args) = 0
                             \/ (Len(args) = 1 /\ IsAddressArg(args[1]))
      [] action = "PRINT" -> Len(args) = 1 /\ IsOperandArg(args[1])

\* C19: every line Command(line) accepts conforms to the catalog: the right
\* number of arguments, each a well-formed memory address, a known register
\* or an integer, of a kind allowed at its position.
C19_AcceptedConforms ==
    (status = "parsed" /\ cmd.ok) => Catalog(cmd.action, cmd.args)

\* the same for PRINT alone
C19_PrintConforms ==
    (status = "parsed" /\ cmd.ok /\ cmd.action = "PRINT")
        => Catalog(cmd.action, cmd.args)

\* the same for the two-argument STORE alone
C19_Store2Conforms ==
    (status = "parsed" /\ cmd.ok /\ cmd.action = "STORE" /\ Len(cmd.args) = 2)
        => Catalog(cmd.action, cmd.args)

\* a run of VirtualMachine.run or a sequence of direct calls
InitAll == Init \/ InitUnit

NextAll == Next \/ NextUnit

SpecAll == InitAll /\ [][NextAll]_vars

\* the state belongs to a run of VirtualMachine.run
InRun == status \in {"running", "done", "faulted", "exited"}

\* C20: a call of execute_command with a Command of any opcode but PUSH
\* returns and leaves registers, memory, stack and output as they were; and
\* in every state of a run both registers are 0 and memory is empty, and no
\* step of a run shortens the stack.
C20_OnlyPushActs ==
    /\ [](InRun => /\ REGISTERS = [r \in {"RESULT", "RXX"} |-> I(0)]
                   /\ MEMORY = EmptyMemory)
    /\ [][ /\ InRun => Len(STACK') >= Len(STACK)
           /\ ( /\ last'.op = "execute_command"
                /\ Parsed[last'.line].ok
                /\ last'.action # "PUSH" )
                  => (last'.exc = "none" /\ MachineUnchanged) ]_vars

\* execute_command has just returned from a LOAD on a machine that holds a
\* stack entry and the memory cell the LOAD names
C20_Witness ==
    /\ last.op = "execute_command"
    /\ last.line = "LOAD {x}"
    /\ last.exc = "none"
    /\ STACK # <<>>
    /\ "{x}" \in DOMAIN MEMORY
    /\ REGISTERS["RXX"] = I(0)

=============================================================================
